---- MODULE Spec2Model ----
EXTENDS Integers, Sequences, FiniteSets, TLC

(***************************************************************************)
(* busy-installer: the installer engine (core/runner.py) and its step      *)
(* ledger (core/state.py).                                                 *)
(*                                                                         *)
(* Every action is one code segment of the engine that ends in a ledger    *)
(* record (append + save) or in a raise.  Optional values (None / value)   *)
(* are sets with at most one element: {} is None.                          *)
(*                                                                         *)
(* Spec       one engine constructed over a workspace, run() called once  *)
(* SpecKill   the same, the process may be killed inside save()            *)
(* SpecFault  the same, on a disk where save() may raise OSError           *)
(* SpecDiskFills  the same, save() may raise from the last stage on        *)
(* SpecTwice  install run twice, one run after the other, on one workspace *)
(* SpecTwo    two engines at once on one workspace                         *)
(* SpecLoad   InstallState.load on a state file of another version         *)
(***************************************************************************)

\* ---- bounds of the model
MaxEntries == 2      \* manifest entries: repositories + bindings + models
MaxPrior == 1        \* steps already in install-state.json before construction
MaxFaults == 1       \* calls of save() that fail on a failing disk
MaxSwitches == 2     \* context switches between two engines on one workspace
MaxFileSteps == 1    \* step entries of a state file written by another version

VARIABLES
    pc,               \* position of the engine in __init__ / run()
    exc,              \* the exception in flight (NoExc when none)
    dry_run,          \* InstallerEngine.dry_run
    strict_source,    \* InstallerEngine.strict_source
    fallback_allowed, \* InstallerEngine.fallback_allowed
    include_models,   \* the argument of run(), bound when run() is entered
    manifest,         \* InstallerManifest
    state_at_ws,      \* state_path is the workspace (the default) or another directory
    steps,            \* InstallState.steps
    metadata,         \* InstallState.metadata
    clock,            \* source of _now()
    disk,             \* the file install-state.json
    fs,               \* directories and files: workspace, state directory, report
    cur,              \* the repository / binding / model being processed and its paths
    idx,              \* loop index inside the current stage
    writes,           \* filesystem objects created or written since construction
    commands,         \* external commands handed to the command runner
    prior,            \* steps held by install-state.json before construction
    disk_faults,      \* persistence failures the environment may still inject
    world             \* what outlives a run: the manifest's items, their paths, the
                      \* behaviour of the command runner (NoWorld: drawn when used)

vars == <<pc, exc, dry_run, strict_source, fallback_allowed, include_models, manifest,
          state_at_ws, steps, metadata, clock, disk, fs, cur, idx, writes, commands,
          prior, disk_faults, world>>

\* what __init__ fixes for the life of the engine
engvars == <<dry_run, strict_source, fallback_allowed, manifest, state_at_ws, prior>>

\* the same, with the world of an engine that draws its items as it meets them
cfgvars == <<engvars, world>>

\* ---- optional values
None == {}

Some(x) == {x}

TheValue(o) == CHOOSE x \in o : TRUE

\* ---- exceptions
NoExc == [type |-> "none", text |-> ""]

InstallFailure(text) == [type |-> "InstallFailure", text |-> text]

OSError(text) == [type |-> "OSError", text |-> text]

\* ---- core/state.py: the step ledger

\* InstallStepState(name, status, message, details), at = _now()
InstallStepState(name, status, message, details, at) ==
    [name |-> name, status |-> status, message |-> message, details |-> details, at |-> at]

\* as_dict that never writes the details
as_dict_without_details(e) ==
    LET keys == {"name", "status", "at"}
                \cup (IF e.message # None THEN {"message"} ELSE {})
    IN [k \in keys |->
          CASE k = "name" -> e.name
            [] k = "status" -> e.status
            [] k = "at" -> e.at
            [] k = "message" -> TheValue(e.message)]

\* InstallStepState.as_dict: message and details are left out when None
as_dict(e) ==
    LET keys == {"name", "status", "at"}
                \cup (IF e.message # None THEN {"message"} ELSE {})
                \cup (IF e.details # None THEN {"details"} ELSE {})
    IN [k \in keys |->
          CASE k = "name" -> e.name
            [] k = "status" -> e.status
            [] k = "at" -> e.at
            [] k = "message" -> TheValue(e.message)
            [] k = "details" -> TheValue(e.details)]

\* InstallStepState(**item): a missing message or details takes its default None
from_dict(item) ==
    [name |-> item["name"],
     status |-> item["status"],
     message |-> IF "message" \in DOMAIN item THEN Some(item["message"]) ELSE None,
     details |-> IF "details" \in DOMAIN item THEN Some(item["details"]) ELSE None,
     at |-> item["at"]]

\* InstallState.to_dict
to_dict(meta, ss) ==
    [version |-> 1, metadata |-> meta, steps |-> [i \in 1..Len(ss) |-> as_dict(ss[i])]]

EmptyMeta == [k \in {} |-> ""]

\* dict.update
update(meta, kwargs) ==
    [k \in DOMAIN meta \cup DOMAIN kwargs |->
        IF k \in DOMAIN kwargs THEN kwargs[k] ELSE meta[k]]

\* the file: absent, or holding a complete JSON document, or cut short
NoFile == [exists |-> FALSE, complete |-> FALSE, payload |-> to_dict(EmptyMeta, <<>>)]

FileOf(payload) == [exists |-> TRUE, complete |-> TRUE, payload |-> payload]

\* open(path, "w") has truncated the file and json.dump has not finished
TornFile == [exists |-> TRUE, complete |-> FALSE, payload |-> to_dict(EmptyMeta, <<>>)]

\* save that writes the latest step alone
save_latest_step(meta, ss) ==
    FileOf(to_dict(meta, IF ss = <<>> THEN <<>> ELSE <<ss[Len(ss)]>>))

\* a save that reads the file back and adds its latest step to what it finds
save_merging(meta, ss) ==
    IF disk.exists /\ ss # <<>>
    THEN FileOf([version |-> 1, metadata |-> meta,
                 steps |-> Append(disk.payload.steps, as_dict(ss[Len(ss)]))])
    ELSE FileOf(to_dict(meta, ss))

\* InstallState.save: the whole state, never a delta
save(meta, ss) == FileOf(to_dict(meta, ss))

\* load that keeps the metadata and starts a fresh step list
load_fresh_steps(file) ==
    IF file.exists
    THEN [metadata |-> file.payload.metadata, steps |-> <<>>]
    ELSE [metadata |-> EmptyMeta, steps |-> <<>>]

\* InstallState.load on a readable file (or no file): <<metadata, steps>>
load(file) ==
    IF file.exists
    THEN [metadata |-> file.payload.metadata,
          steps |-> [i \in 1..Len(file.payload.steps) |-> from_dict(file.payload.steps[i])]]
    ELSE [metadata |-> EmptyMeta, steps |-> <<>>]

\* self.path.mkdir(parents=True, exist_ok=True) in save()
StateDir == IF state_at_ws THEN "workspace" ELSE "state_dir"

StateDirExists(f) == IF state_at_ws THEN f.workspace ELSE f.state_dir

MkStateDir(f) == IF state_at_ws THEN [f EXCEPT !.workspace = TRUE]
                                ELSE [f EXCEPT !.state_dir = TRUE]

SaveWrites(f) == {"ledger"} \cup (IF StateDirExists(f) THEN {} ELSE {StateDir})

\* InstallState.record: append, then save.  f and w are the filesystem and the
\* write log as the calling code segment leaves them; x is the exception in
\* flight when the call returns, okpc where the code goes on, failpc where an
\* exception raised by save() is handled.
record(e, f, w, x, okpc, failpc) ==
    /\ steps' = Append(steps, e)
    /\ clock' = clock + 1
    /\ \/ /\ disk' = save(metadata, steps')
          /\ fs' = MkStateDir(f)
          /\ writes' = w \cup SaveWrites(f)
          /\ pc' = okpc
          /\ exc' = x
          /\ UNCHANGED disk_faults
       \/ /\ disk_faults > 0
          /\ disk_faults' = disk_faults - 1
          /\ \E torn \in BOOLEAN :
                disk' = IF torn THEN TornFile ELSE disk
          /\ fs' = f
          /\ writes' = w
          /\ exc' = OSError("save failed")
          /\ pc' = failpc
    /\ UNCHANGED <<metadata>>

\* InstallerEngine._record_step: details or None
_record_step(name, status, message, details, f, w, x, okpc, failpc) ==
    record(InstallStepState(name, status, Some(message), details, clock),
           f, w, x, okpc, failpc)

\* InstallState.fail
fail(name, x, okpc, failpc) ==
    record(InstallStepState(name, "failed", Some(x.text), Some([type |-> x.type]), clock),
           fs, writes, x, okpc, failpc)

\* ---- the initial states: an engine about to be constructed
PriorStep == InstallStepState("install", "failed", Some("command failed"),
                              Some([type |-> "InstallFailure"]), 0)

PriorMeta == [manifest |-> "old.yaml", workspace |-> "/ws", note |-> "kept"]

\* the ledger an earlier run left: MaxPrior steps
PriorLedgers == {[i \in 1..MaxPrior |-> PriorStep]}

\* A manifest: the lengths of its lists, whether its two workflow commands are
\* configured, and provider_catalog.enabled, which tests/test_config.py reads,
\* the engine never does, and every manifest of the model sets.  MaxEntries
\* bounds what a manifest configures in all.
Count(b) == IF b THEN 1 ELSE 0

Manifests ==
    {m \in [repositories : 0..MaxEntries, entries : 0..MaxEntries,
            models : 0..MaxEntries, onboarding : BOOLEAN, smoke : BOOLEAN,
            provider_catalog : {TRUE}] :
        m.repositories + m.entries + m.models + Count(m.onboarding) + Count(m.smoke)
            <= MaxEntries}

NoItem == [kind |-> "none"]

\* The workspace before construction: no ledger and no workspace directory, no
\* ledger in an existing workspace, a ledger left by an earlier run, or a state
\* path outside a workspace that does not exist yet.
Workspaces ==
    {[at_ws |-> TRUE, steps |-> <<>>, file |-> NoFile,
      fs |-> [workspace |-> w, state_dir |-> w, report |-> FALSE]] : w \in BOOLEAN}
    \cup {[at_ws |-> TRUE, steps |-> p, file |-> save(PriorMeta, p),
           fs |-> [workspace |-> TRUE, state_dir |-> TRUE, report |-> FALSE]] :
             p \in PriorLedgers}
    \cup {[at_ws |-> FALSE, steps |-> <<>>, file |-> NoFile,
           fs |-> [workspace |-> FALSE, state_dir |-> FALSE, report |-> FALSE]]}

\* strict_source and fallback_allowed are read by the binding stage alone: they
\* keep their defaults when the manifest has no binding
Config ==
    /\ pc = "new"
    /\ exc = NoExc
    /\ dry_run \in BOOLEAN
    /\ manifest \in Manifests
    /\ strict_source \in (IF manifest.entries > 0 THEN BOOLEAN ELSE {FALSE})
    /\ fallback_allowed \in (IF manifest.entries > 0 THEN BOOLEAN ELSE {FALSE})
    /\ include_models = TRUE
    /\ steps = <<>>
    /\ metadata = EmptyMeta
    /\ clock = 1
    /\ cur = NoItem
    /\ idx = 0
    /\ writes = {}
    /\ commands = {}
    /\ \E w \in Workspaces :
          /\ state_at_ws = w.at_ws
          /\ prior = w.steps
          /\ disk = w.file
          /\ fs = w.fs

\* no item is fixed beforehand: each start action draws the item and the
\* state of its paths, each command its return code
NoWorld == [repos |-> <<>>, models |-> <<>>, command_runner |-> "any"]

Init ==
    /\ Config
    /\ disk_faults = 0
    /\ world = NoWorld

\* ---- InstallerEngine.__init__: load the ledger, set_meta, save
Construct ==
    /\ pc = "new"
    /\ LET st == load(disk)
       IN /\ steps' = st.steps
          /\ metadata' = update(st.metadata, [manifest |-> "manifest.yaml", workspace |-> "/ws"])
    /\ disk' = save(metadata', steps')
    /\ fs' = MkStateDir(fs)
    /\ writes' = writes \cup SaveWrites(fs)
    /\ pc' = "precheck"
    /\ UNCHANGED <<exc, include_models, clock, cur, idx, commands, disk_faults>>
    /\ UNCHANGED cfgvars

\* ---- InstallerEngine.run: where the pipeline goes after each stage
AfterWorkspace == IF manifest.repositories > 0 THEN "repos" ELSE "bindings"

AfterRepo == IF idx < manifest.repositories THEN "repos" ELSE "bindings"

AfterBindings == IF include_models THEN "models" ELSE "onboarding"

AfterBinding == IF idx < manifest.entries THEN "bindings" ELSE AfterBindings

AfterModel == IF idx < manifest.models THEN "models" ELSE "onboarding"

\* the loop index after item idx of a list of n items: the next item, or the
\* first item of the next list
NextIdx(n) == IF idx < n THEN idx + 1 ELSE 1

\* ---- _precheck
Precheck ==
    /\ pc = "precheck"
    /\ \E im \in BOOLEAN : include_models' = im
    /\ IF manifest.repositories = 0
       THEN _record_step("precheck", "warning", "No repositories configured", None,
                         fs, writes, NoExc, "workspace", "except")
       ELSE _record_step("precheck", "ok", "Loaded manifest", None,
                         fs, writes, NoExc, "workspace", "except")
    /\ UNCHANGED <<cur, idx, commands>>
    /\ UNCHANGED cfgvars

\* ---- _bootstrap_workspace, up to its first record
BootstrapWorkspace ==
    /\ pc = "workspace"
    /\ IF fs.workspace
       THEN _record_step("workspace", "ok", "Using existing workspace", None,
                         fs, writes, NoExc, AfterWorkspace, "except")
       ELSE _record_step("workspace", "start", "Creating workspace", None,
                         fs, writes, NoExc, "ws_create", "except")
    /\ idx' = 1
    /\ UNCHANGED <<include_models, cur, commands>>
    /\ UNCHANGED cfgvars

\* ---- _bootstrap_workspace after the start record: mkdir unless dry-run
CreateWorkspace ==
    /\ pc = "ws_create"
    /\ IF dry_run
       THEN _record_step("workspace", "ok", "Dry-run: workspace create skipped", None,
                         fs, writes, NoExc, AfterWorkspace, "except")
       ELSE _record_step("workspace", "ok", "Workspace created", None,
                         [fs EXCEPT !.workspace = TRUE], writes \cup {"workspace"},
                         NoExc, AfterWorkspace, "except")
    /\ idx' = 1
    /\ UNCHANGED <<include_models, cur, commands>>
    /\ UNCHANGED cfgvars

\* ---- _sync_repo(repo), up to the start record; the repository and the state
\* of its local path are inputs
RepoDetails == Some([name |-> idx])

SyncRepoStartOf(required, target) ==
    /\ pc = "repos"
    /\ cur' = [kind |-> "repo", required |-> required, target |-> target]
    /\ _record_step("repo", "start", "Syncing", RepoDetails,
                    fs, writes, NoExc, "repo_body", "except")
    /\ UNCHANGED <<include_models, idx, commands>>

SyncRepoStart ==
    /\ \E required \in BOOLEAN, target \in {"absent", "dir", "git"} :
          SyncRepoStartOf(required, target)
    /\ UNCHANGED cfgvars

\* the commands of a _sync_repo that clones whether or not the path exists
RepoCommands_always_clone(r, post) ==
    <<"clone">> \o (IF post THEN <<"post_pull">> ELSE <<>>)

\* the commands _sync_repo hands to _run, in order
RepoCommands(r, post) ==
    (IF r.target = "absent" THEN <<"clone">> ELSE <<"fetch", "checkout", "pull">>)
    \o (IF post THEN <<"post_pull">> ELSE <<>>)

\* required and the path exists without .git: raise
SyncRepoNotRepo ==
    /\ pc = "repo_body"
    /\ cur.target = "dir"
    /\ cur.required
    /\ exc' = InstallFailure("required repository path exists but is not a repo")
    /\ pc' = "repo_except"
    /\ UNCHANGED <<include_models, steps, metadata, clock, disk, fs, cur, idx, writes,
                   commands, disk_faults>>
    /\ UNCHANGED cfgvars

\* dry-run: record what would be done and return
SyncRepoDry ==
    /\ pc = "repo_body"
    /\ ~(cur.target = "dir" /\ cur.required)
    /\ dry_run
    /\ _record_step("repo", "ok",
                    IF cur.target = "absent" THEN "Would clone" ELSE "Would update",
                    RepoDetails, fs, writes, NoExc, AfterRepo, "repo_except")
    /\ idx' = NextIdx(manifest.repositories)
    /\ UNCHANGED <<include_models, cur, commands>>
    /\ UNCHANGED cfgvars

\* live: fetch/checkout/pull or clone, then the post-pull steps; command k of
\* the list returns non-zero (k = 0: none does).  The "Would run post-pull"
\* record needs dry_run and is never reached: a dry-run has returned above.
SyncRepoLiveOf(post, k) ==
    /\ pc = "repo_body"
    /\ ~(cur.target = "dir" /\ cur.required)
    /\ ~dry_run
    /\ LET cmds == RepoCommands(cur, post)
           f1 == IF cur.target = "absent" THEN [fs EXCEPT !.workspace = TRUE] ELSE fs
           w1 == IF cur.target = "absent" THEN writes \cup {"repo_parent"} ELSE writes
           ran == {cmds[j] : j \in 1..(IF k = 0 THEN Len(cmds) ELSE k)}
           cloned == cur.target = "absent" /\ k # 1
       IN /\ commands' = commands \cup ran
          /\ cur' = IF cloned THEN [cur EXCEPT !.target = "git"] ELSE cur
          /\ IF k = 0
             THEN /\ _record_step("repo", "ok", "Synced", RepoDetails,
                                  f1, IF cloned THEN w1 \cup {"repo"} ELSE w1,
                                  NoExc, AfterRepo, "repo_except")
                  /\ idx' = NextIdx(manifest.repositories)
             ELSE /\ exc' = InstallFailure("command failed")
                  /\ pc' = "repo_except"
                  /\ fs' = f1
                  /\ writes' = IF cloned THEN w1 \cup {"repo"} ELSE w1
                  /\ UNCHANGED <<steps, metadata, clock, disk, idx, disk_faults>>
    /\ UNCHANGED include_models

SyncRepoLive ==
    /\ pc = "repo_body"
    /\ \E post \in BOOLEAN :
         \E k \in 0..Len(RepoCommands(cur, post)) : SyncRepoLiveOf(post, k)
    /\ UNCHANGED cfgvars

\* an except clause that skips every repository, required or not
SyncRepoExcept_skips_required ==
    /\ pc = "repo_except"
    /\ _record_step("repo", "skipped", "Optional repo skipped", RepoDetails,
                    fs, writes, NoExc, AfterRepo, "except")
    /\ idx' = NextIdx(manifest.repositories)
    /\ UNCHANGED <<include_models, cur, commands>>
    /\ UNCHANGED cfgvars

\* except Exception in _sync_repo
SyncRepoExcept ==
    /\ pc = "repo_except"
    /\ IF cur.required
       THEN /\ _record_step("repo", "failed", exc.text, RepoDetails,
                            fs, writes, exc, "except", "except")
            /\ UNCHANGED idx
       ELSE /\ _record_step("repo", "skipped", "Optional repo skipped", RepoDetails,
                            fs, writes, NoExc, AfterRepo, "except")
            /\ idx' = NextIdx(manifest.repositories)
    /\ UNCHANGED <<include_models, cur, commands>>
    /\ UNCHANGED cfgvars

\* ---- _apply_source_bindings with no entry configured
ApplySourceBindingsNone ==
    /\ pc = "bindings"
    /\ manifest.entries = 0
    /\ _record_step("canonical", "skipped", "No source-of-truth entries configured", None,
                    fs, writes, NoExc, AfterBindings, "except")
    /\ idx' = 1
    /\ UNCHANGED <<include_models, cur, commands>>
    /\ UNCHANGED cfgvars

\* ---- _apply_source_binding(binding), up to the start record; the binding and
\* the state of its canonical and adapter paths are inputs (the adapter path is
\* not looked at when the canonical path is missing)
BindingDetails == Some([name |-> idx, required |-> cur'.required])

ApplySourceBindingStart ==
    /\ pc = "bindings"
    /\ manifest.entries > 0
    /\ \E required \in BOOLEAN, canonical \in BOOLEAN,
          adapter \in {"absent", "link_canonical", "link_other", "dir"} :
          /\ ~canonical => adapter = "absent"
          /\ cur' = [kind |-> "binding", required |-> required,
                     canonical_exists |-> canonical, adapter |-> adapter]
    /\ _record_step("canonical", "start", "Binding source", BindingDetails,
                    fs, writes, NoExc, "bind_body", "except")
    /\ UNCHANGED <<include_models, idx, commands>>
    /\ UNCHANGED cfgvars

\* _ensure_adapter_path without its two dry-run returns
_ensure_adapter_path_ignoring_dry_run(adapter, link_ok) ==
    IF adapter # "absent"
    THEN [adapter |-> adapter, writes |-> {}, raised |-> FALSE]
    ELSE IF link_ok
    THEN [adapter |-> "link_canonical", writes |-> {"adapter_parent", "symlink"},
          raised |-> FALSE]
    ELSE IF fallback_allowed
    THEN [adapter |-> "dir", writes |-> {"adapter_parent", "adapter_dir"}, raised |-> FALSE]
    ELSE [adapter |-> "absent", writes |-> {"adapter_parent"}, raised |-> TRUE]

\* _ensure_adapter_path making the directory whenever the link fails, whether
\* fallback is allowed or not
_ensure_adapter_path_always_falling_back(adapter, link_ok) ==
    IF adapter # "absent" \/ dry_run
    THEN [adapter |-> adapter, writes |-> {}, raised |-> FALSE]
    ELSE IF link_ok
    THEN [adapter |-> "link_canonical", writes |-> {"adapter_parent", "symlink"},
          raised |-> FALSE]
    ELSE [adapter |-> "dir", writes |-> {"adapter_parent", "adapter_dir"}, raised |-> FALSE]

\* _ensure_adapter_path: what the adapter path is afterwards, what was written,
\* and whether the call raised.  link_ok: adapter.symlink_to succeeds.
_ensure_adapter_path(adapter, link_ok) ==
    IF adapter # "absent" \/ dry_run
    THEN [adapter |-> adapter, writes |-> {}, raised |-> FALSE]
    ELSE IF link_ok
    THEN [adapter |-> "link_canonical", writes |-> {"adapter_parent", "symlink"},
          raised |-> FALSE]
    ELSE IF fallback_allowed
    THEN [adapter |-> "dir", writes |-> {"adapter_parent", "adapter_dir"}, raised |-> FALSE]
    ELSE [adapter |-> "absent", writes |-> {"adapter_parent"}, raised |-> TRUE]

is_symlink(adapter) == adapter \in {"link_canonical", "link_other"}

\* _resolve_repo_mount: (workspace / mount).resolve() follows a symbolic link
\* that is already at the mount, so the path the binding code inspects is the
\* link's target, an existing path that is no link.  mount is what the
\* filesystem holds at the adapter mount (a link there has an existing target).
_resolve_repo_mount(mount) == IF is_symlink(mount) THEN "dir" ELSE mount

\* _apply_source_binding after _ensure_adapter_path returned: the record it
\* makes, or the InstallFailure it raises
BindingVerdict(adapter) ==
    IF is_symlink(adapter)
    THEN IF adapter = "link_canonical"
         THEN [raise |-> FALSE, status |-> "ok", text |-> "Canonical symlink active"]
         ELSE IF ~fallback_allowed \/ strict_source
         THEN [raise |-> TRUE, status |-> "", text |-> "adapter points to unexpected source"]
         ELSE [raise |-> FALSE, status |-> "warning",
               text |-> "Symlink target mismatch; keeping explicit state"]
    ELSE IF ~fallback_allowed
    THEN IF strict_source
         THEN [raise |-> TRUE, status |-> "",
               text |-> "canonical path must be mounted as symlink"]
         ELSE [raise |-> FALSE, status |-> "warning",
               text |-> "Adapter is not symlinked for source-of-truth mapping"]
    ELSE [raise |-> FALSE, status |-> "ok", text |-> "Accepting adapter copy"]

CurDetails == Some([name |-> idx, required |-> cur.required])

\* the canonical path does not exist
ApplySourceBindingMissing ==
    /\ pc = "bind_body"
    /\ ~cur.canonical_exists
    /\ IF cur.required \/ strict_source
       THEN /\ exc' = InstallFailure("canonical source missing")
            /\ pc' = "bind_except"
            /\ UNCHANGED <<steps, metadata, clock, disk, fs, idx, writes, disk_faults>>
       ELSE /\ _record_step("canonical", "warning", "canonical source missing", CurDetails,
                            fs, writes, NoExc, AfterBinding, "bind_except")
            /\ idx' = NextIdx(manifest.entries)
    /\ UNCHANGED <<include_models, cur, commands>>
    /\ UNCHANGED cfgvars

\* the canonical path exists: ensure the adapter, then judge it.  adapter is
\* the resolved path of line 150 (nothing touches the mount between that line
\* and this one); cur.adapter stays the state of the mount itself.
ApplySourceBindingResolve ==
    /\ pc = "bind_body"
    /\ cur.canonical_exists
    /\ \E link_ok \in BOOLEAN :
         LET adapter == _resolve_repo_mount(cur.adapter)
             e == _ensure_adapter_path(adapter, link_ok)
             v == BindingVerdict(e.adapter)
             f1 == IF "adapter_parent" \in e.writes THEN [fs EXCEPT !.workspace = TRUE]
                                                    ELSE fs
         IN /\ cur' = IF is_symlink(cur.adapter) THEN cur
                                                ELSE [cur EXCEPT !.adapter = e.adapter]
            /\ IF e.raised \/ v.raise
               THEN /\ exc' = IF e.raised THEN OSError("symlink failed")
                                          ELSE InstallFailure(v.text)
                    /\ pc' = "bind_except"
                    /\ fs' = f1
                    /\ writes' = writes \cup e.writes
                    /\ UNCHANGED <<steps, metadata, clock, disk, idx, disk_faults>>
               ELSE /\ _record_step("canonical", v.status, v.text, CurDetails,
                                    f1, writes \cup e.writes, NoExc, AfterBinding,
                                    "bind_except")
                    /\ idx' = NextIdx(manifest.entries)
    /\ UNCHANGED <<include_models, commands>>
    /\ UNCHANGED cfgvars

\* except Exception in _apply_source_binding re-raising under strict_source only
ApplySourceBindingExcept_ignoring_required ==
    /\ pc = "bind_except"
    /\ IF strict_source
       THEN /\ pc' = "except"
            /\ UNCHANGED <<exc, steps, metadata, clock, disk, fs, idx, writes, disk_faults>>
       ELSE /\ _record_step("canonical", "warning", exc.text, CurDetails,
                            fs, writes, NoExc, AfterBinding, "except")
            /\ idx' = NextIdx(manifest.entries)
    /\ UNCHANGED <<include_models, cur, commands>>
    /\ UNCHANGED cfgvars

\* except Exception in _apply_source_binding
ApplySourceBindingExcept ==
    /\ pc = "bind_except"
    /\ IF cur.required \/ strict_source
       THEN /\ pc' = "except"
            /\ UNCHANGED <<exc, steps, metadata, clock, disk, fs, idx, writes, disk_faults>>
       ELSE /\ _record_step("canonical", "warning", exc.text, CurDetails,
                            fs, writes, NoExc, AfterBinding, "except")
            /\ idx' = NextIdx(manifest.entries)
    /\ UNCHANGED <<include_models, cur, commands>>
    /\ UNCHANGED cfgvars

\* ---- _prepare_models with no model configured
PrepareModelsNone ==
    /\ pc = "models"
    /\ manifest.models = 0
    /\ _record_step("models", "skipped", "No models configured", None,
                    fs, writes, NoExc, "onboarding", "except")
    /\ UNCHANGED <<include_models, cur, idx, commands>>
    /\ UNCHANGED cfgvars

\* ---- _prepare_models, one model up to its start record; the model has one
\* artifact, with or without a checksum, and its marker file is absent, holds
\* exactly the checksum, or holds what _fetch_artifact writes
ModelDetails == Some([name |-> idx])

PrepareModelStartOf(checksum, marker) ==
    /\ pc = "models"
    /\ manifest.models > 0
    /\ ~checksum => marker = "absent"
    /\ cur' = [kind |-> "model", checksum |-> checksum, marker |-> marker]
    /\ _record_step("model", "start", "Preparing model", ModelDetails,
                    fs, writes, NoExc, "model_body", "except")
    /\ UNCHANGED <<include_models, idx, commands>>

PrepareModelStart ==
    /\ \E checksum \in BOOLEAN, marker \in {"absent", "checksum", "written"} :
          PrepareModelStartOf(checksum, marker)
    /\ UNCHANGED cfgvars

\* dry-run: no staging
PrepareModelDry ==
    /\ pc = "model_body"
    /\ dry_run
    /\ _record_step("model", "ok", "Model staging would run", ModelDetails,
                    fs, writes, NoExc, AfterModel, "except")
    /\ idx' = NextIdx(manifest.models)
    /\ UNCHANGED <<include_models, cur, commands>>
    /\ UNCHANGED cfgvars

\* marker.read_text().strip() == artifact.checksum: the text _fetch_artifact
\* writes is the checksum followed by a backslash, the letter n and the hash,
\* which strip() leaves alone
MarkerMatches(marker) == marker = "checksum"

\* live: mkdir the target, then _fetch_artifact
PrepareModelFetchBody ==
    /\ pc = "model_body"
    /\ ~dry_run
    /\ LET f1 == [fs EXCEPT !.workspace = TRUE]
           w1 == writes \cup {"model_dir"}
       IN IF cur.checksum /\ MarkerMatches(cur.marker)
          THEN /\ _record_step("model", "info", "Model artifact already cached", None,
                               f1, w1, NoExc, "model_end", "except")
               /\ UNCHANGED <<cur, idx>>
          ELSE /\ cur' = IF cur.checksum THEN [cur EXCEPT !.marker = "written"] ELSE cur
               /\ _record_step("model", "ok", "Model prepared", ModelDetails,
                               f1, IF cur.checksum THEN w1 \cup {"marker"} ELSE w1,
                               NoExc, AfterModel, "except")
               /\ idx' = NextIdx(manifest.models)
    /\ UNCHANGED <<include_models, commands>>

PrepareModelFetch ==
    /\ PrepareModelFetchBody
    /\ UNCHANGED cfgvars

\* live, after the artifact was found cached
PrepareModelEnd ==
    /\ pc = "model_end"
    /\ _record_step("model", "ok", "Model prepared", ModelDetails,
                    fs, writes, NoExc, AfterModel, "except")
    /\ idx' = NextIdx(manifest.models)
    /\ UNCHANGED <<include_models, cur, commands>>
    /\ UNCHANGED cfgvars

\* ---- _run_onboarding / _run_smoke: no command configured
WorkflowNone(stage, text, nextpc) ==
    /\ pc = stage
    /\ ~manifest[stage]
    /\ _record_step(stage, "skipped", text, None, fs, writes, NoExc, nextpc, "except")
    /\ UNCHANGED <<include_models, cur, idx, commands>>
    /\ UNCHANGED cfgvars

\* a command is configured: the start record
WorkflowStart(stage, text, runpc) ==
    /\ pc = stage
    /\ manifest[stage]
    /\ _record_step(stage, "start", text, None, fs, writes, NoExc, runpc, "except")
    /\ UNCHANGED <<include_models, cur, idx, commands>>
    /\ UNCHANGED cfgvars

\* the workflow command handed to _run and the code the command runner returned
CommandRun(stage, code) == [kind |-> "command", stage |-> stage, code |-> code]

\* a workflow stage without the dry-run test: the command always goes to _run
WorkflowRun_ignoring_dry_run(stage, runpc, text, nextpc) ==
    /\ pc = runpc
    /\ commands' = commands \cup {stage}
    /\ \E code \in {0, 1} :
         /\ cur' = CommandRun(stage, code)
         /\ IF code # 0
            THEN /\ exc' = InstallFailure("command failed")
                 /\ pc' = "except"
                 /\ UNCHANGED <<steps, metadata, clock, disk, fs, writes, disk_faults>>
            ELSE _record_step(stage, "ok", text, None, fs, writes, NoExc, nextpc, "except")
    /\ UNCHANGED <<include_models, idx>>
    /\ UNCHANGED cfgvars

\* a workflow stage whose _run never raises: the ok record whatever the code
WorkflowRun_ignoring_exit_code(stage, runpc, text, nextpc) ==
    /\ pc = runpc
    /\ IF dry_run
       THEN /\ _record_step(stage, "ok", "Would run command", None,
                            fs, writes, NoExc, nextpc, "except")
            /\ UNCHANGED <<commands, cur>>
       ELSE /\ commands' = commands \cup {stage}
            /\ \E code \in {0, 1} :
                 /\ cur' = CommandRun(stage, code)
                 /\ _record_step(stage, "ok", text, None, fs, writes, NoExc, nextpc,
                                 "except")
    /\ UNCHANGED <<include_models, idx>>
    /\ UNCHANGED cfgvars

\* after the start record: dry-run records, live hands the command to _run,
\* which raises InstallFailure on a non-zero code
WorkflowRun(stage, runpc, text, nextpc) ==
    /\ pc = runpc
    /\ IF dry_run
       THEN /\ _record_step(stage, "ok", "Would run command", None,
                            fs, writes, NoExc, nextpc, "except")
            /\ UNCHANGED <<commands, cur>>
       ELSE /\ commands' = commands \cup {stage}
            /\ \E code \in {0, 1} :
                 /\ cur' = CommandRun(stage, code)
                 /\ IF code # 0
                    THEN /\ exc' = InstallFailure("command failed")
                         /\ pc' = "except"
                         /\ UNCHANGED <<steps, metadata, clock, disk, fs, writes,
                                        disk_faults>>
                    ELSE _record_step(stage, "ok", text, None,
                                      fs, writes, NoExc, nextpc, "except")
    /\ UNCHANGED <<include_models, idx>>
    /\ UNCHANGED cfgvars

RunOnboardingNone == WorkflowNone("onboarding", "No onboarding workflow configured", "smoke")

RunOnboardingStart == WorkflowStart("onboarding", "Running onboarding", "onboarding_run")

RunOnboarding ==
    WorkflowRun("onboarding", "onboarding_run", "Onboarding command completed", "smoke")

RunSmokeNone == WorkflowNone("smoke", "No smoke workflow configured", "finalize")

RunSmokeStart == WorkflowStart("smoke", "Running smoke check", "smoke_run")

RunSmoke == WorkflowRun("smoke", "smoke_run", "Smoke check completed", "finalize")

\* _finalize writing the report after the finalize record was appended and saved
Finalize_recording_first ==
    /\ pc = "finalize"
    /\ steps' = Append(steps,
                       InstallStepState("finalize", "ok",
                                        Some(IF dry_run THEN "Dry-run complete"
                                                        ELSE "Installer finished"),
                                        None, clock))
    /\ clock' = clock + 1
    /\ \/ /\ disk' = save(metadata, steps')
          /\ fs' = IF dry_run THEN MkStateDir(fs)
                              ELSE [MkStateDir(fs) EXCEPT !.report = TRUE]
          /\ writes' = writes \cup SaveWrites(fs) \cup (IF dry_run THEN {} ELSE {"report"})
          /\ pc' = "done"
          /\ exc' = NoExc
          /\ UNCHANGED disk_faults
       \/ /\ disk_faults > 0
          /\ disk_faults' = disk_faults - 1
          /\ \E torn \in BOOLEAN :
                disk' = IF torn THEN TornFile ELSE disk
          /\ exc' = OSError("save failed")
          /\ pc' = "except"
          /\ UNCHANGED <<fs, writes>>
    /\ UNCHANGED <<metadata, include_models, cur, idx, commands>>
    /\ UNCHANGED cfgvars

\* ---- _finalize
Finalize ==
    /\ pc = "finalize"
    /\ IF dry_run
       THEN _record_step("finalize", "ok", "Dry-run complete", None,
                         fs, writes, NoExc, "done", "except")
       ELSE _record_step("finalize", "ok", "Installer finished", None,
                         [fs EXCEPT !.report = TRUE], writes \cup {"report"},
                         NoExc, "done", "except")
    /\ UNCHANGED <<include_models, cur, idx, commands>>
    /\ UNCHANGED cfgvars

\* the except clause re-raising without state.fail
RunExcept_without_fail ==
    /\ pc = "except"
    /\ pc' = "raised"
    /\ UNCHANGED <<exc, include_models, steps, metadata, clock, disk, fs, cur, idx,
                   writes, commands, disk_faults>>
    /\ UNCHANGED cfgvars

\* ---- run(): except Exception: state.fail("install", exc); raise
RunExcept ==
    /\ pc = "except"
    /\ fail("install", exc, "raised", "raised")
    /\ UNCHANGED <<include_models, cur, idx, commands>>
    /\ UNCHANGED cfgvars

\* ---- the process is killed inside save(), after open(path, "w") truncated
\* the file and before json.dump finished
Running == pc \notin {"new", "done", "raised", "crashed"}

KilledInSave ==
    /\ Running
    /\ disk' = TornFile
    /\ pc' = "crashed"
    /\ UNCHANGED <<exc, include_models, steps, metadata, clock, fs, cur, idx, writes,
                   commands, disk_faults>>
    /\ UNCHANGED cfgvars

Next ==
    \/ Construct
    \/ Precheck
    \/ BootstrapWorkspace
    \/ CreateWorkspace
    \/ SyncRepoStart
    \/ SyncRepoNotRepo
    \/ SyncRepoDry
    \/ SyncRepoLive
    \/ SyncRepoExcept
    \/ ApplySourceBindingsNone
    \/ ApplySourceBindingStart
    \/ ApplySourceBindingMissing
    \/ ApplySourceBindingResolve
    \/ ApplySourceBindingExcept
    \/ PrepareModelsNone
    \/ PrepareModelStart
    \/ PrepareModelDry
    \/ PrepareModelFetch
    \/ PrepareModelEnd
    \/ RunOnboardingNone
    \/ RunOnboardingStart
    \/ RunOnboarding
    \/ RunSmokeNone
    \/ RunSmokeStart
    \/ RunSmoke
    \/ Finalize
    \/ RunExcept

Spec == Init /\ [][Next]_vars

\* the same engine with the process killed at any save
SpecKill == Init /\ [][Next \/ KilledInSave]_vars

\* ---- the same engine on a disk that fails: up to MaxFaults calls of save()
\* made by run() raise OSError (disk full, permission denied)
InitFault ==
    /\ Config
    /\ disk_faults = MaxFaults
    /\ world = NoWorld

SpecFault == InitFault /\ [][Next]_vars

\* ---- the same engine on a disk that starts to fail when the run has reached
\* its last stage: from there on up to MaxFaults calls of save() raise OSError
DiskFills ==
    /\ pc = "finalize"
    /\ disk_faults = 0
    /\ disk_faults' = MaxFaults
    /\ UNCHANGED <<pc, exc, include_models, steps, metadata, clock, disk, fs, cur, idx,
                   writes, commands>>
    /\ UNCHANGED cfgvars

SpecDiskFills == Init /\ [][Next \/ DiskFills]_vars

\* ---- two engines at once on one workspace: two install commands, same
\* manifest and flags, each process with its own InstallState.  The variables
\* of the engine hold the process that is running, world.other the one that
\* waits; Switch is the scheduler passing from one to the other between two
\* steps.  The file, the filesystem and the time are shared.  Both are
\* dry-runs: the ledger calls are those of a live run and nothing else in the
\* workspace is touched.
Local ==
    [pc |-> pc, exc |-> exc, include_models |-> include_models, steps |-> steps,
     metadata |-> metadata, cur |-> cur, idx |-> idx, writes |-> writes,
     commands |-> commands, prior |-> prior]

NewEngine ==
    [pc |-> "new", exc |-> NoExc, include_models |-> TRUE, steps |-> <<>>,
     metadata |-> EmptyMeta, cur |-> NoItem, idx |-> 0, writes |-> {},
     commands |-> {}, prior |-> <<>>]

InitTwo ==
    /\ pc = "new"
    /\ exc = NoExc
    /\ dry_run = TRUE
    /\ manifest \in {m \in Manifests : /\ m.repositories <= 1
                                       /\ m.entries = 0 /\ m.models = 0
                                       /\ ~m.onboarding /\ ~m.smoke}
    /\ strict_source = FALSE
    /\ fallback_allowed = FALSE
    /\ include_models = TRUE
    /\ steps = <<>>
    /\ metadata = EmptyMeta
    /\ clock = 1
    /\ cur = NoItem
    /\ idx = 0
    /\ writes = {}
    /\ commands = {}
    /\ state_at_ws = TRUE
    /\ prior = <<>>
    /\ disk = NoFile
    /\ fs = [workspace |-> TRUE, state_dir |-> TRUE, report |-> FALSE]
    /\ disk_faults = 0
    /\ world = [repos |-> <<>>, models |-> <<>>, command_runner |-> "any",
                other |-> NewEngine, active |-> 1, switches |-> 0]

Switch ==
    /\ world.switches < MaxSwitches
    /\ world.other.pc \notin {"done", "raised"}
    /\ world' = [world EXCEPT !.other = Local, !.active = 3 - @, !.switches = @ + 1]
    /\ pc' = world.other.pc
    /\ exc' = world.other.exc
    /\ include_models' = world.other.include_models
    /\ steps' = world.other.steps
    /\ metadata' = world.other.metadata
    /\ cur' = world.other.cur
    /\ idx' = world.other.idx
    /\ writes' = world.other.writes
    /\ commands' = world.other.commands
    /\ prior' = world.other.prior
    /\ UNCHANGED <<dry_run, strict_source, fallback_allowed, manifest, state_at_ws,
                   clock, disk, fs, disk_faults>>

NextTwo ==
    \/ Construct
    \/ Precheck
    \/ BootstrapWorkspace
    \/ SyncRepoStart
    \/ SyncRepoNotRepo
    \/ SyncRepoDry
    \/ SyncRepoExcept
    \/ ApplySourceBindingsNone
    \/ PrepareModelsNone
    \/ RunOnboardingNone
    \/ RunSmokeNone
    \/ Finalize
    \/ RunExcept
    \/ Switch

SpecTwo == InitTwo /\ [][NextTwo]_vars

\* ---- InstallState.load on a state file this version did not write: a JSON
\* object with any of the keys version, metadata, steps and an unknown one, its
\* step entries objects with any of the five fields and an unknown one
TypeError(text) == [type |-> "TypeError", text |-> text]

StepFields == {"name", "status", "message", "details", "at"}

StepItems ==
    {[k \in K |->
        CASE k = "name" -> "precheck"
          [] k = "status" -> "ok"
          [] k = "message" -> "Loaded manifest"
          [] k = "details" -> [type |-> "x"]
          [] k = "at" -> 0
          [] k = "note" -> "added later"] : K \in SUBSET (StepFields \cup {"note"})}

StepLists == UNION {[1..n -> StepItems] : n \in 0..MaxFileSteps}

Payloads ==
    UNION {{[k \in K |->
               CASE k = "version" -> 1
                 [] k = "metadata" -> PriorMeta
                 [] k = "steps" -> ss
                 [] k = "extra" -> "added later"] : ss \in StepLists} :
           K \in SUBSET {"version", "metadata", "steps", "extra"}}

\* InstallStepState(**item): a keyword that is no field, or a missing name or
\* status, raises TypeError; message and details default to None, at to _now()
InstallStepState_kwargs(item, now) ==
    IF ~(DOMAIN item \subseteq StepFields)
    THEN [raised |-> TRUE, exc |-> TypeError("unexpected keyword argument"),
          step |-> InstallStepState("", "", None, None, now)]
    ELSE IF ~({"name", "status"} \subseteq DOMAIN item)
    THEN [raised |-> TRUE, exc |-> TypeError("missing required positional argument"),
          step |-> InstallStepState("", "", None, None, now)]
    ELSE [raised |-> FALSE, exc |-> NoExc,
          step |-> InstallStepState(
                      item["name"], item["status"],
                      IF "message" \in DOMAIN item THEN Some(item["message"]) ELSE None,
                      IF "details" \in DOMAIN item THEN Some(item["details"]) ELSE None,
                      IF "at" \in DOMAIN item THEN item["at"] ELSE now)]

\* payload.get(key, default)
get(payload, key, default) == IF key \in DOMAIN payload THEN payload[key] ELSE default

\* InstallState.load on a file that exists and parses
load_payload(payload, now) ==
    LET items == get(payload, "steps", <<>>)
        made == [i \in 1..Len(items) |-> InstallStepState_kwargs(items[i], now)]
        bad == {i \in 1..Len(items) : made[i].raised}
    IN IF bad # {}
       THEN [raised |-> TRUE,
             exc |-> made[CHOOSE i \in bad : \A j \in bad : i <= j].exc,
             metadata |-> get(payload, "metadata", EmptyMeta), steps |-> <<>>]
       ELSE [raised |-> FALSE, exc |-> NoExc,
             metadata |-> get(payload, "metadata", EmptyMeta),
             steps |-> [i \in 1..Len(items) |-> made[i].step]]

InitLoad ==
    /\ pc = "new"
    /\ exc = NoExc
    /\ dry_run = TRUE
    /\ manifest \in {m \in Manifests : m.repositories + m.entries + m.models = 0
                                       /\ ~m.onboarding /\ ~m.smoke}
    /\ strict_source = FALSE
    /\ fallback_allowed = FALSE
    /\ include_models = TRUE
    /\ steps = <<>>
    /\ metadata = EmptyMeta
    /\ clock = 1
    /\ cur = NoItem
    /\ idx = 0
    /\ writes = {}
    /\ commands = {}
    /\ state_at_ws = TRUE
    /\ prior = <<>>
    /\ \E payload \in Payloads : disk = FileOf(payload)
    /\ fs = [workspace |-> TRUE, state_dir |-> TRUE, report |-> FALSE]
    /\ disk_faults = 0
    /\ world = NoWorld

\* InstallState.load(path), the first thing __init__ does with the file
Load ==
    /\ pc = "new"
    /\ LET st == load_payload(disk.payload, clock)
       IN /\ steps' = st.steps
          /\ metadata' = st.metadata
          /\ exc' = st.exc
          /\ pc' = IF st.raised THEN "raised" ELSE "loaded"
    /\ UNCHANGED <<include_models, clock, disk, fs, cur, idx, writes, commands,
                   disk_faults>>
    /\ UNCHANGED cfgvars

SpecLoad == InitLoad /\ [][Load]_vars

\* ---- install run twice on one workspace, the second engine constructed after
\* the first run has ended.  The world is fixed beforehand and both runs meet
\* it: the manifest's repositories (required, post-pull steps) and models
\* (checksum), the state of each repository path and marker file, and a command
\* runner that gives the same command the same code in both runs (it returns
\* non-zero for one kind of command, or for none).  world.synced has one entry
\* per run: every repository path was a repository when that run began.
Runners == {"none", "clone", "fetch", "checkout", "pull", "post_pull"}

RepoWorlds == [required : BOOLEAN, post : BOOLEAN, target : {"absent", "git"}]

ModelWorlds ==
    {m \in [checksum : BOOLEAN, marker : {"absent", "checksum"}] :
        ~m.checksum => m.marker = "absent"}

Synced(repos) == \A i \in 1..Len(repos) : repos[i].target = "git"

InitTwice ==
    /\ pc = "new"
    /\ exc = NoExc
    /\ dry_run \in BOOLEAN
    /\ manifest \in {m \in Manifests : m.entries = 0 /\ ~m.onboarding /\ ~m.smoke}
    /\ strict_source = FALSE
    /\ fallback_allowed = FALSE
    /\ include_models = TRUE
    /\ steps = <<>>
    /\ metadata = EmptyMeta
    /\ clock = 1
    /\ cur = NoItem
    /\ idx = 0
    /\ writes = {}
    /\ commands = {}
    /\ state_at_ws = TRUE
    /\ prior = <<>>
    /\ disk = NoFile
    /\ fs = [workspace |-> TRUE, state_dir |-> TRUE, report |-> FALSE]
    /\ disk_faults = 0
    /\ \E repos \in [1..manifest.repositories -> RepoWorlds],
          models \in [1..manifest.models -> ModelWorlds],
          runner \in Runners :
          world = [repos |-> repos, models |-> models, command_runner |-> runner,
                   synced |-> <<Synced(repos)>>]

\* the index of the first command the runner fails, 0 when it fails none
FirstFailing(cmds) ==
    LET F == {j \in 1..Len(cmds) : cmds[j] = world.command_runner}
    IN IF F = {} THEN 0 ELSE CHOOSE j \in F : \A k \in F : j <= k

TwiceSyncRepoStart ==
    /\ pc = "repos"
    /\ SyncRepoStartOf(world.repos[idx].required, world.repos[idx].target)
    /\ UNCHANGED cfgvars

TwiceSyncRepoLive ==
    /\ pc = "repo_body"
    /\ LET post == world.repos[idx].post
       IN SyncRepoLiveOf(post, FirstFailing(RepoCommands(cur, post)))
    /\ world' = [world EXCEPT !.repos[idx].target = cur'.target]
    /\ UNCHANGED engvars

TwicePrepareModelStart ==
    /\ pc = "models"
    /\ manifest.models > 0
    /\ PrepareModelStartOf(world.models[idx].checksum, world.models[idx].marker)
    /\ UNCHANGED cfgvars

TwicePrepareModelFetch ==
    /\ PrepareModelFetchBody
    /\ world' = [world EXCEPT !.models[idx].marker = cur'.marker]
    /\ UNCHANGED engvars

\* the first run has ended; the install command is given again: a new engine
\* over the same workspace, manifest and flags
RunAgain ==
    /\ pc \in {"done", "raised"}
    /\ Len(world.synced) = 1
    /\ pc' = "new"
    /\ exc' = NoExc
    /\ prior' = load(disk).steps
    /\ steps' = <<>>
    /\ metadata' = EmptyMeta
    /\ cur' = NoItem
    /\ idx' = 0
    /\ writes' = {}
    /\ commands' = {}
    /\ world' = [world EXCEPT !.synced = Append(@, Synced(world.repos))]
    /\ UNCHANGED <<dry_run, strict_source, fallback_allowed, manifest, state_at_ws,
                   include_models, clock, disk, fs, disk_faults>>

NextTwice ==
    \/ Construct
    \/ Precheck
    \/ BootstrapWorkspace
    \/ TwiceSyncRepoStart
    \/ SyncRepoDry
    \/ TwiceSyncRepoLive
    \/ SyncRepoExcept
    \/ ApplySourceBindingsNone
    \/ PrepareModelsNone
    \/ TwicePrepareModelStart
    \/ PrepareModelDry
    \/ TwicePrepareModelFetch
    \/ PrepareModelEnd
    \/ RunOnboardingNone
    \/ RunSmokeNone
    \/ Finalize
    \/ RunExcept
    \/ RunAgain

SpecTwice == InitTwice /\ [][NextTwice]_vars

\* ---- the records of this run: those after the steps loaded at construction
RunIdx == IF pc = "new" THEN {} ELSE (Len(prior) + 1)..Len(steps)

IsPrefix(s, t) == Len(s) <= Len(t) /\ \A i \in 1..Len(s) : s[i] = t[i]

Finished == pc \in {"done", "raised"}

StageRank(name) ==
    CASE name = "precheck" -> 1
      [] name = "workspace" -> 2
      [] name = "repo" -> 3
      [] name = "canonical" -> 4
      [] name \in {"model", "models"} -> 5
      [] name = "provider_catalog" -> 6
      [] name = "onboarding" -> 7
      [] name = "smoke" -> 8
      [] name = "finalize" -> 9
      [] OTHER -> 10

\* the stage order alone: no record of an earlier stage follows a record of a
\* later one in the same run
StageOrder ==
    \A i \in RunIdx : \A j \in RunIdx :
        i < j => StageRank(steps[i].name) <= StageRank(steps[j].name)

\* C1: within one run the records follow the stage order precheck, workspace,
\* repo, canonical, model, provider_catalog, onboarding, smoke, finalize, and
\* the provider_catalog stage runs between model staging and onboarding: with
\* the catalog enabled, a run that has reached onboarding has a
\* provider_catalog record before its first onboarding record.
C1_StageOrderWithCatalog ==
    /\ StageOrder
    /\ \A j \in RunIdx :
          (manifest.provider_catalog /\ steps[j].name = "onboarding")
            => \E i \in RunIdx : i < j /\ steps[i].name = "provider_catalog"

C3_FileIsWholeState ==
    pc # "new" =>
        /\ disk.exists
        /\ disk.complete
        /\ disk.payload.metadata = metadata
        /\ Len(disk.payload.steps) = Len(steps)
        /\ \A i \in 1..Len(steps) : disk.payload.steps[i] = as_dict(steps[i])

C3_Witness ==
    /\ pc = "done"
    /\ dry_run
    /\ Len(prior) > 0
    /\ Len(steps) >= Len(prior) + 5

\* C4: once install-state.json exists it is always a complete document that
\* load() can read, also when the process dies inside save().
C4_FileAlwaysReadable == disk.exists => disk.complete

\* C5: the ledger is append-only: construction loads exactly the steps the
\* file held, and every later call leaves the steps it found as a prefix.
C5_AppendOnly ==
    [][/\ pc = "new" => steps' = prior
       /\ pc # "new" => IsPrefix(steps, steps')]_vars

C5_Witness ==
    /\ pc = "raised"
    /\ Len(prior) > 0
    /\ Len(steps) >= Len(prior) + 4

\* C6: load() of the file that save() wrote gives back the metadata map and
\* the step sequence, field by field.
C6_RoundTrip ==
    pc # "new" => load(disk) = [metadata |-> metadata, steps |-> steps]

C6_Witness ==
    /\ pc = "raised"
    /\ Len(prior) > 0
    /\ "note" \in DOMAIN metadata
    /\ \E i \in RunIdx : steps[i].details = None
    /\ \E i \in RunIdx : steps[i].details # None /\ steps[i].message # None

\* C7 as stated: a dry-run creates or writes nothing but the ledger file.
C7_DryRunWritesLedgerOnly == dry_run => writes \subseteq {"ledger"}

\* C7 amended: a dry-run creates or writes nothing but the ledger file and the
\* directory that holds it (the state path, by default the workspace).
C7_DryRunWritesLedgerAndItsDir ==
    dry_run => /\ writes \subseteq {"ledger", StateDir}
               /\ ~fs.report
               /\ ~state_at_ws => (fs.workspace <=> "workspace" \in writes)

C7_Witness ==
    /\ dry_run
    /\ pc = "done"
    /\ StateDir \in writes
    /\ \E i \in RunIdx : steps[i].name = "canonical" /\ steps[i].status = "ok"
    /\ cur.kind = "binding" /\ cur.adapter = "absent"

Terminal == {"ok", "warning", "skipped", "failed"}

\* C8: in a dry-run that has ended, every start record is followed in the run
\* by a record of the same stage with a terminal status.
C8_StartReachesTerminal ==
    (dry_run /\ Finished) =>
        \A i \in RunIdx :
            steps[i].status = "start" =>
                \E j \in RunIdx : /\ j > i
                                  /\ steps[j].name = steps[i].name
                                  /\ steps[j].status \in Terminal

LastStatus(name) ==
    LET I == {i \in RunIdx : steps[i].name = name}
    IN IF I = {} THEN "none"
       ELSE steps[CHOOSE i \in I : \A k \in I : k <= i].status

\* C9: under strict_source a run stopped by a required binding whose canonical
\* path is missing raises InstallFailure, and the last canonical record and the
\* last install record both have status failed.
C9_StrictMissingCanonical ==
    (/\ pc = "raised"
     /\ strict_source
     /\ cur.kind = "binding"
     /\ cur.required
     /\ ~cur.canonical_exists)
        => /\ exc.type = "InstallFailure"
           /\ LastStatus("canonical") = "failed"
           /\ LastStatus("install") = "failed"

\* C10: under strict_source a binding is recorded ok only when its adapter
\* path is a symbolic link that resolves to the canonical path.
C10_StrictAcceptsOnlyCanonicalLink ==
    (/\ strict_source
     /\ RunIdx # {}
     /\ steps[Len(steps)].name = "canonical"
     /\ steps[Len(steps)].status = "ok")
        => cur.adapter = "link_canonical"

\* ---- a binding whose body has run and which did not stop the run
BindingJudged == cur.kind = "binding" /\ pc # "bind_body"

Aborting == pc \in {"bind_except", "repo_except", "except", "raised"}

\* C11: under strict_source a binding whose adapter mount is a symbolic link
\* to something other than the canonical path stops the run with
\* InstallFailure, whether the binding is required or optional and whether
\* fallback_allowed is set or not.
C11_StrictMismatchedLinkIsFatal ==
    (/\ strict_source
     /\ BindingJudged
     /\ cur.adapter = "link_other")
        => /\ Aborting
           /\ exc.type = "InstallFailure"

\* ---- the run has left model staging and goes on with the workflows
PastModels ==
    pc \in {"onboarding", "onboarding_run", "smoke", "smoke_run", "finalize", "done"}

CatalogRecords == {i \in RunIdx : steps[i].name = "provider_catalog"}

\* C12: with provider_catalog enabled, a live run that goes on past the
\* catalog stage has recorded its outcome: a provider_catalog record with
\* status ok (valid fetch, cache written) or warning (invalid or failed fetch
\* that an optional catalog or an existing cache tolerates); the only other
\* outcome is the abort with InstallFailure.
C12_CatalogOutcomeRecorded ==
    (/\ ~dry_run
     /\ manifest.provider_catalog
     /\ PastModels)
        => \E i \in CatalogRecords : steps[i].status \in {"ok", "warning"}

\* C13: with provider_catalog enabled, a dry-run that goes on past the catalog
\* stage has the record (provider_catalog, ok, "Dry-run: catalog fetch
\* skipped") and has not written the cache file.
C13_CatalogDryRunRecord ==
    (/\ dry_run
     /\ manifest.provider_catalog
     /\ PastModels)
        => /\ \E i \in CatalogRecords :
                 /\ steps[i].status = "ok"
                 /\ steps[i].message = Some("Dry-run: catalog fetch skipped")
           /\ "catalog_cache" \notin writes

\* ---- two runs: the statuses of the repo records of each
RepoStatuses(ss) ==
    LET r == SelectSeq(ss, LAMBDA e : e.name = "repo")
    IN [i \in 1..Len(r) |-> r[i].status]

SecondRun == Len(world.synced) = 2 /\ pc # "new"

FirstRunSteps == SubSeq(steps, 1, Len(prior))

SecondRunSteps == SubSeq(steps, Len(prior) + 1, Len(steps))

\* C14: a second run of install, same manifest and flags, that finds every
\* repository path to be a repository hands no clone command to the runner;
\* and when the first run found the workspace synced too, the second run
\* appends the same sequence of repo statuses as the first.
C14_SecondRunIdempotent ==
    (SecondRun /\ world.synced[2]) =>
        /\ "clone" \notin commands
        /\ (Finished /\ world.synced[1]) =>
               RepoStatuses(SecondRunSteps) = RepoStatuses(FirstRunSteps)

C14_Witness ==
    /\ SecondRun
    /\ pc = "done"
    /\ ~dry_run
    /\ world.synced[1]
    /\ manifest.repositories = 2
    /\ {"fetch", "checkout", "pull", "post_pull"} \subseteq commands
    /\ RepoStatuses(SecondRunSteps) = <<"start", "skipped", "start", "ok">>

\* ---- two runs: the model whose staging has just ended, and its staging in
\* the first run
Prepared(e) == e.name = "model" /\ e.status = "ok" /\ e.message = Some("Model prepared")

StagedInFirstRun(e) == \E i \in 1..Len(prior) : Prepared(steps[i]) /\ steps[i].details = e.details

\* C15: when a model artifact with a checksum is staged again, live, after an
\* earlier staging of the same artifact with the same checksum, the second
\* staging takes the "already cached" branch, the one that leaves the marker
\* file alone: its record precedes the model's ok record.
C15_SecondStagingIsCached ==
    (/\ SecondRun
     /\ cur.kind = "model"
     /\ cur.checksum
     /\ Prepared(steps[Len(steps)])
     /\ StagedInFirstRun(steps[Len(steps)]))
        => /\ steps[Len(steps) - 1].name = "model"
           /\ steps[Len(steps) - 1].status = "info"
           /\ steps[Len(steps) - 1].message = Some("Model artifact already cached")

\* ---- repository failures in the ledger
RepoRecords(status) == {i \in RunIdx : steps[i].name = "repo" /\ steps[i].status = status}

\* a failed repo record ends the run: only the install record follows it
FailedRepoAborts ==
    \A i \in RepoRecords("failed") :
        /\ pc \in {"except", "raised"}
        /\ steps[i - 1].name = "repo" /\ steps[i - 1].status = "start"
        /\ steps[i - 1].details = steps[i].details
        /\ \A j \in RunIdx : j > i => steps[j].name = "install"

\* a skipped repo record closes its repository and the run goes on: the next
\* repository's start or a later stage follows, never the install record
SkippedRepoGoesOn ==
    \A i \in RepoRecords("skipped") :
        /\ steps[i - 1].name = "repo" /\ steps[i - 1].status = "start"
        /\ steps[i - 1].details = steps[i].details
        /\ IF i = Len(steps)
           THEN pc = (IF TheValue(steps[i].details).name < manifest.repositories
                      THEN "repos" ELSE "bindings")
           ELSE /\ steps[i + 1].name # "install"
                /\ steps[i + 1].name = "repo" =>
                      /\ steps[i + 1].status = "start"
                      /\ steps[i + 1].details # steps[i].details

\* C16: a failure while a repository is synced always gets its record: for an
\* optional repository one skipped record, after which the run goes on with
\* the next repository; for a required one a failed record, after which the
\* run aborts and no later repository or stage leaves a record.
C16_RepoFailureHandling ==
    [][/\ pc = "repo_except" =>
            /\ exc # NoExc
            /\ steps' = Append(steps, steps'[Len(steps')])
            /\ steps'[Len(steps')].name = "repo"
            /\ steps'[Len(steps')].details = steps[Len(steps)].details
            /\ steps'[Len(steps')].status = (IF cur.required THEN "failed" ELSE "skipped")
            /\ cur.required => pc' = "except" /\ exc' = exc
       /\ FailedRepoAborts'
       /\ SkippedRepoGoesOn']_vars

C16_Witness ==
    /\ pc = "raised"
    /\ ~dry_run
    /\ exc.type = "InstallFailure"
    /\ \E i \in RepoRecords("skipped") : \E j \in RepoRecords("failed") : i < j

\* C17: in a dry-run no command reaches the command runner, whatever runner
\* the engine was given, and every step that stands for a command succeeds:
\* no exception comes from a command, a workflow step is never failed, and a
\* repository is never skipped and fails only for a path that is no repository.
C17_DryRunRunsNoCommand ==
    dry_run =>
        /\ commands = {}
        /\ exc.text # "command failed"
        /\ \A i \in RunIdx :
              /\ steps[i].name \in {"onboarding", "smoke"}
                    => steps[i].status \in {"skipped", "start", "ok"}
              /\ steps[i].name = "repo"
                    => \/ steps[i].status \in {"start", "ok"}
                       \/ /\ steps[i].status = "failed"
                          /\ steps[i].message
                               = Some("required repository path exists but is not a repo")

C17_Witness ==
    /\ dry_run
    /\ pc = "done"
    /\ \E i \in RunIdx : steps[i].name = "repo" /\ steps[i].message = Some("Would clone")
    /\ \E i \in RunIdx : /\ steps[i].name = "onboarding"
                          /\ steps[i].message = Some("Would run command")

\* C18: a call of save() that fails inside run() is fatal: from then on the
\* run is on its way out of run() with the OSError; no handler of an optional
\* repository or binding turns it into a skipped or warning step after which
\* the run goes on.
C18_PersistenceFailureIsFatal ==
    disk_faults < MaxFaults =>
        /\ Aborting
        /\ exc.type = "OSError"

\* ---- two engines: the steps the waiting engine recorded in its run
OtherRunSteps ==
    {world.other.steps[i] : i \in (Len(world.other.prior) + 1)..Len(world.other.steps)}

FileSteps == {disk.payload.steps[i] : i \in 1..Len(disk.payload.steps)}

\* C19: with two engines at work on one workspace, every save replaces the
\* whole file by the saving engine's own in-memory ledger, whatever the other
\* engine had put there (last writer wins).
C19_LastWriterWins ==
    [][disk' # disk => disk' = FileOf(to_dict(metadata', steps'))]_vars

\* the lost update: a step the waiting engine recorded and saved is no longer
\* in the file after a save by the running engine
C19_Witness ==
    /\ world.other.pc # "new"
    /\ RunIdx # {}
    /\ disk = FileOf(to_dict(metadata, steps))
    /\ \E e \in OtherRunSteps : as_dict(e) \notin FileSteps

\* ---- the step entries of the file that was loaded
FileItems == get(disk.payload, "steps", <<>>)

\* C20: load never fails on a file whose top-level object or step entries
\* lack fields or carry unknown ones: a missing metadata or steps is empty,
\* every step entry gives a step whose missing fields have their defaults, and
\* unknown fields are ignored.
C20_LoadDefaultsSafely ==
    pc # "new" =>
        /\ pc = "loaded"
        /\ metadata = get(disk.payload, "metadata", EmptyMeta)
        /\ Len(steps) = Len(FileItems)
        /\ \A i \in 1..Len(steps) :
              \A k \in StepFields \cap DOMAIN FileItems[i] :
                 steps[i][k] = IF k \in {"message", "details"}
                               THEN Some(FileItems[i][k]) ELSE FileItems[i][k]

\* ---- a binding whose adapter path was there before the run, as a directory
\* or a copy and no link, and whose body has run
CopyJudged ==
    /\ BindingJudged
    /\ cur.canonical_exists
    /\ cur.adapter = "dir"
    /\ "adapter_dir" \notin writes

\* C21: a binding whose canonical path exists and whose adapter path exists
\* and is no symbolic link is recorded ok ("Accepting adapter copy") when
\* fallback_allowed is set and strict_source is not; with any other setting of
\* the two flags it stops the run with InstallFailure.
C21_CopyAcceptedOnlyByFallback ==
    CopyJudged =>
        IF fallback_allowed /\ ~strict_source
        THEN /\ ~Aborting
             /\ LastStatus("canonical") = "ok"
        ELSE /\ Aborting
             /\ exc.type = "InstallFailure"

\* C22: a binding whose adapter is an existing symbolic link to something
\* other than the canonical path stops the run when fallback is disallowed,
\* with strict_source or without, and is recorded as a warning when fallback
\* is allowed and strict_source is off; the link is still at the mount as it
\* was (cur.adapter is the state of the mount after the binding's body).
C22_MismatchedLinkOutcome ==
    (BindingJudged /\ cur.adapter = "link_other") =>
        /\ ~fallback_allowed => Aborting
        /\ (fallback_allowed /\ ~strict_source) =>
              /\ ~Aborting
              /\ LastStatus("canonical") = "warning"

\* ---- the body of a binding is about to run in a live run, the canonical
\* path exists and nothing is at the adapter mount
AbsentAdapterLive ==
    /\ pc = "bind_body"
    /\ ~dry_run
    /\ cur.canonical_exists
    /\ cur.adapter = "absent"

\* C23: in a live run, for a binding whose canonical path exists and whose
\* adapter path is absent, the step ends in one of three ways: the symbolic
\* link to the canonical path is made and the binding is recorded ok; or the
\* link could not be made, fallback is allowed, and an ordinary directory is
\* made at the adapter path; or the link could not be made, fallback is
\* disallowed, the OSError leaves the adapter step and the adapter path is
\* still absent.
C23_AbsentAdapterIsLinked ==
    [][AbsentAdapterLive =>
         \/ /\ cur'.adapter = "link_canonical"
            /\ writes' = writes \cup {"adapter_parent", "symlink"}
            /\ pc' # "bind_except"
            /\ steps' = Append(steps, steps'[Len(steps')])
            /\ steps'[Len(steps')].name = "canonical"
            /\ steps'[Len(steps')].status = "ok"
         \/ /\ fallback_allowed
            /\ cur'.adapter = "dir"
            /\ writes' = writes \cup {"adapter_parent", "adapter_dir"}
         \/ /\ ~fallback_allowed
            /\ cur'.adapter = "absent"
            /\ writes' = writes \cup {"adapter_parent"}
            /\ pc' = "bind_except"
            /\ exc'.type = "OSError"
            /\ steps' = steps]_vars

C23_Witness ==
    /\ pc = "bind_except"
    /\ ~dry_run
    /\ ~fallback_allowed
    /\ cur.kind = "binding"
    /\ cur.canonical_exists
    /\ cur.adapter = "absent"
    /\ exc.type = "OSError"
    /\ "adapter_parent" \in writes
    /\ "symlink" \notin writes

\* ---- the canonical records of this run
CanonicalRecords == {i \in RunIdx : steps[i].name = "canonical"}

\* C24: an error raised while one binding is resolved is handled for that
\* binding alone: for an optional binding without strict_source one canonical
\* warning record with the error's text is appended and the run goes on with
\* the next binding or the next stage; for a required binding or under
\* strict_source nothing is recorded, the same error is re-raised to run(), and
\* from there on the run only fails: no canonical record is added any more.
C24_BindingErrorHandling ==
    [][/\ pc = "bind_except" =>
            /\ exc # NoExc
            /\ IF cur.required \/ strict_source
               THEN /\ pc' = "except"
                    /\ exc' = exc
                    /\ steps' = steps
               ELSE /\ steps' = Append(steps, steps'[Len(steps')])
                    /\ steps'[Len(steps')].name = "canonical"
                    /\ steps'[Len(steps')].status = "warning"
                    /\ steps'[Len(steps')].message = Some(exc.text)
                    /\ steps'[Len(steps')].details = steps[Len(steps)].details
                    /\ pc' = (IF idx < manifest.entries THEN "bindings"
                              ELSE IF include_models THEN "models" ELSE "onboarding")
       /\ pc \in {"except", "raised"} =>
            /\ pc' = "raised"
            /\ CanonicalRecords' = CanonicalRecords]_vars

C24_Witness ==
    /\ pc = "raised"
    /\ ~strict_source
    /\ cur.kind = "binding"
    /\ cur.required
    /\ exc.type = "OSError"
    /\ \E i \in CanonicalRecords :
          /\ steps[i].status = "warning"
          /\ steps[i].message = Some("symlink failed")

\* ---- installer-report.md and the finalize record
ReportWritten == "report" \in writes

FinalizeRecorded ==
    \E i \in RunIdx : steps[i].name = "finalize" /\ steps[i].status = "ok"

LastIsFinalizeOk ==
    /\ Len(steps) > 0
    /\ steps[Len(steps)].name = "finalize"
    /\ steps[Len(steps)].status = "ok"

\* C25: installer-report.md is written by a live run alone, and by one that
\* went through every stage and returns; it is there whenever the finalize ok
\* record of a live run is in the ledger (it is written first); a dry-run and
\* a run that raises never write it; and a run that has ended returned exactly
\* when its last record is (finalize, ok).
C25_ReportOnlyByCompletedLiveRun ==
    /\ ReportWritten => (~dry_run /\ fs.report /\ pc = "done")
    /\ (FinalizeRecorded /\ ~dry_run) => ReportWritten
    /\ Finished => (pc = "done" <=> LastIsFinalizeOk)

\* the only failed record of the run, if any, is the install record of a save
\* that failed, and it is the last record
FailedOnlyBySave ==
    \A i \in RunIdx :
        steps[i].status = "failed" =>
            /\ i = Len(steps)
            /\ steps[i].name = "install"
            /\ steps[i].message = Some("save failed")

\* C25 (amended): the same, but for the run that raises because the save of
\* the finalize record itself failed: that run has written the report, it
\* went through every earlier stage without a failure, and the finalize
\* record was appended after the report was written.
C25_ReportOnlyByLiveFinalize ==
    /\ ReportWritten =>
          /\ ~dry_run
          /\ fs.report
          /\ FinalizeRecorded
          /\ FailedOnlyBySave
          /\ \/ pc = "done"
             \/ pc \in {"except", "raised"} /\ exc.type = "OSError"
    /\ (FinalizeRecorded /\ ~dry_run) => ReportWritten
    /\ Finished => (pc = "done" <=> LastIsFinalizeOk)

C25_Witness ==
    /\ pc = "raised"
    /\ ReportWritten
    /\ FinalizeRecorded
    /\ LastStatus("install") = "failed"
    /\ disk.exists /\ disk.complete
    /\ Len(disk.payload.steps) = Len(steps)

\* ---- the workflow stages in the ledger
WorkflowRecords(stage) == {i \in RunIdx : steps[i].name = stage}

WorkflowStatus(stage, status) == {i \in WorkflowRecords(stage) : steps[i].status = status}

\* the positions of run() after the stage
PastWorkflow(stage) ==
    IF stage = "onboarding" THEN pc \in {"smoke", "smoke_run", "finalize", "done"}
                            ELSE pc \in {"finalize", "done"}

\* no command configured: one skipped record and nothing else, no command,
\* and the run goes on
WorkflowSkipped(stage) ==
    /\ stage \notin commands
    /\ WorkflowRecords(stage) = WorkflowStatus(stage, "skipped")
    /\ Cardinality(WorkflowRecords(stage)) <= 1
    /\ PastWorkflow(stage) => Cardinality(WorkflowRecords(stage)) = 1
    /\ \A i \in WorkflowRecords(stage) :
          IF i = Len(steps) THEN PastWorkflow(stage)
                            ELSE steps[i + 1].name # "install"

\* a command configured, live run: the command runs once, after the start
\* record; either the ok record follows, or the run is on its way out with
\* InstallFailure and the stage has no ok record
WorkflowLive(stage) ==
    /\ WorkflowStatus(stage, "skipped") = {}
    /\ Cardinality(WorkflowStatus(stage, "start")) <= 1
    /\ Cardinality(WorkflowStatus(stage, "ok")) <= 1
    /\ stage \in commands =>
          /\ WorkflowStatus(stage, "start") # {}
          /\ IF WorkflowStatus(stage, "ok") # {}
             THEN \A i \in WorkflowStatus(stage, "start") :
                     /\ i + 1 \in WorkflowStatus(stage, "ok")
                     /\ i + 1 = Len(steps) => PastWorkflow(stage)
             ELSE /\ pc \in {"except", "raised"}
                  /\ exc = InstallFailure("command failed")
                  /\ \A i \in WorkflowStatus(stage, "start") :
                        \A j \in RunIdx : j > i => steps[j].name = "install"
    /\ WorkflowStatus(stage, "ok") # {} => stage \in commands
    /\ PastWorkflow(stage) => stage \in commands
    /\ (cur.kind = "command" /\ cur.stage = stage) =>
          /\ stage \in commands
          /\ cur.code = 0 <=> WorkflowStatus(stage, "ok") # {}

\* C26: for onboarding and for smoke alike: with no command configured the
\* stage leaves exactly one skipped record, runs no command, and the pipeline
\* goes on; with a command configured, a live run hands it to the command
\* runner once, and a non-zero exit code raises InstallFailure and stops the
\* run with no ok record for the stage.
C26_WorkflowStages ==
    \A stage \in {"onboarding", "smoke"} :
        /\ ~manifest[stage] => WorkflowSkipped(stage)
        /\ (manifest[stage] /\ ~dry_run) => WorkflowLive(stage)

C26_Witness ==
    /\ pc = "raised"
    /\ ~dry_run
    /\ manifest.onboarding /\ manifest.smoke
    /\ commands = {"onboarding", "smoke"}
    /\ WorkflowStatus("onboarding", "ok") # {}
    /\ WorkflowStatus("smoke", "ok") = {}
    /\ cur = CommandRun("smoke", 1)
    /\ exc = InstallFailure("command failed")

\* ---- what a live run makes of a binding once adapter.symlink_to(canonical)
\* has succeeded: the verdict on a link to the canonical path
LiveLinked == BindingVerdict("link_canonical")

\* a dry-run has judged a binding whose canonical path exists and whose
\* adapter path is absent (a dry-run leaves it absent)
DryJudgedAbsent ==
    /\ dry_run
    /\ BindingJudged
    /\ cur.canonical_exists
    /\ cur.adapter = "absent"

\* C27: a dry-run ends a binding whose canonical path exists and whose adapter
\* path is absent as the live run that makes the link ends it, whatever
\* required, strict_source and fallback_allowed are: the same status is
\* recorded, or InstallFailure is raised in both.
C27_DryRunPredictsBinding ==
    DryJudgedAbsent =>
        IF LiveLinked.raise
        THEN Aborting /\ exc.type = "InstallFailure"
        ELSE /\ ~Aborting
             /\ LastStatus("canonical") = LiveLinked.status
====
